---- MODULE Spec2Model ----
(***************************************************************************)
(* Model of modernScript.py: a poll loop that captures screen regions,     *)
(* scores each against a reference image and plays an audio alert, with a  *)
(* cooldown between alerts.                                                *)
(*                                                                         *)
(* Images are grids: a sequence of rows, each a sequence of pixels, each a *)
(* sequence of 8-bit channel values (B, G, R and possibly A).  Times are   *)
(* whole seconds.  A similarity score is an exact fraction <<num, den>>.   *)
(***************************************************************************)
EXTENDS Integers, Sequences, FiniteSets

\* ------------------------------------------------------------------ bounds
\* time.time() at the last modelled poll cycle
MaxTime == 44
\* extra seconds a cycle may take on top of CHECK_INTERVAL
MaxJitter == 1
\* time.time() at startup ranges over COOLDOWN_PERIOD .. COOLDOWN_PERIOD + MaxStartSkew
MaxStartSkew == 1
\* most pixels of the grids the scorer is checked on
MaxPixels == 4

\* --------------------------------------------------------------- constants
CHECK_INTERVAL == 2
COOLDOWN_PERIOD == 20
\* 0.98 as an exact fraction
SIMILARITY_THRESHOLD == <<98, 100>>

REGIONS ==
    << [top |-> 834, left |-> 56,   width |-> 35, height |-> 31],
       [top |-> 835, left |-> 1830, width |-> 35, height |-> 31] >>

\* ------------------------------------------------------------------ images
Rows(img) == Len(img)
Cols(img) == Len(img[1])
Channels(img) == Len(img[1][1])
\* numpy's img.shape
Shape(img) == <<Rows(img), Cols(img), Channels(img)>>

\* cv2.cvtColor(img, cv2.COLOR_BGRA2BGR): the alpha channel is dropped
BGRA2BGR(img) ==
    [r \in 1..Rows(img) |-> [c \in 1..Cols(img) |-> SubSeq(img[r][c], 1, 3)]]

\* cv2.cvtColor(img, cv2.COLOR_BGR2GRAY) on one 8-bit pixel: the library's
\* 15-bit fixed-point weights of B, G, R, rounded to nearest
GrayPixel(px) == (px[1] * 3735 + px[2] * 19235 + px[3] * 9798 + 16384) \div 32768

BGR2GRAY(img) ==
    [r \in 1..Rows(img) |-> [c \in 1..Cols(img) |-> GrayPixel(img[r][c])]]

\* Linear interpolation of the sequence of numbers src at destination index
\* i (0-based) of n: the sample point is (i + 1/2) * Len(src) / n - 1/2,
\* clamped to the ends, the value rounded to nearest.
LerpAt(src, n, i) ==
    LET sl == Len(src)
        num == (2 * i + 1) * sl - n
        den == 2 * n
        sx == num \div den
        fr == num % den
    IN  IF num < 0 THEN src[1]
        ELSE IF sx >= sl - 1 THEN src[sl]
        ELSE (src[sx + 1] * (den - fr) + src[sx + 2] * fr + n) \div den

\* cv2.resize(img, (cols, rows)) with the default bilinear interpolation,
\* applied along the columns and then along the rows, channel by channel
Resize(img, rows, cols) ==
    LET wide == [r \in 1..Rows(img) |-> [c \in 1..cols |-> [k \in 1..3 |->
                    LerpAt([x \in 1..Cols(img) |-> img[r][x][k]], cols, c - 1)]]]
    IN  [r \in 1..rows |-> [c \in 1..cols |-> [k \in 1..3 |->
            LerpAt([y \in 1..Rows(img) |-> wide[y][c][k]], rows, r - 1)]]]

RECURSIVE SumSeq(_)
SumSeq(s) == IF s = <<>> THEN 0 ELSE Head(s) + SumSeq(Tail(s))

\* the sum over all pixels of (gray1 - gray2) ** 2
SquaredError(gray1, gray2) ==
    SumSeq([r \in 1..Len(gray1) |->
        SumSeq([c \in 1..Len(gray1[r]) |->
            (gray1[r][c] - gray2[r][c]) * (gray1[r][c] - gray2[r][c])])])

max_mse == 255 * 255

\* A mis-scaled score: the squared error divided by 255 instead of 255 ** 2.
SimilarityUnsquared(se, n) == <<255 * n - se, 255 * n>>

\* similarity = 1 - (mse / max_mse), where mse = se / n, as a fraction
Similarity(se, n) == <<max_mse * n - se, max_mse * n>>

compare_images(img1, img2) ==
    LET resized == IF Shape(img1) # Shape(img2)
                   THEN Resize(img2, Rows(img1), Cols(img1))
                   ELSE img2
        gray1 == BGR2GRAY(img1)
        gray2 == BGR2GRAY(resized)
    IN  Similarity(SquaredError(gray1, gray2), Rows(img1) * Cols(img1))

\* a >= b on fractions with positive denominators
FracGE(a, b) == a[1] * b[2] >= b[1] * a[2]
FracEq(a, b) == a[1] * b[2] = b[1] * a[2]

\* ------------------------------------------------------------------- state
VARIABLES
    pc,               \* main()'s position
    platform_system,  \* platform.system()
    ref_file,         \* what is on disk at REFERENCE_IMAGE
    reference_img,    \* main's reference_img; <<>> before it is loaded
    last_audio_time,  \* main's last_audio_time
    match_found,      \* main's match_found
    i,                \* the for loop's index into REGIONS
    results,          \* per region, what this cycle's capture and scoring gave
    now,              \* the wall clock, time.time()
    current_time,     \* main's current_time (line 153)
    fired,            \* play_audio was invoked in this cycle
    audioLog,         \* the play_audio invocations so far: time and outcome
    sigint,           \* an interrupt signal has been delivered
    lastDelta,        \* seconds between the previous cycle and this one
    scn,              \* how many cycles since startup followed Scenario
    scnFired,         \* the cycles among those in which play_audio was invoked
    img1, img2,       \* compare_images' arguments, when checked on its own
    similarity,       \* its result
    scored            \* whether it has returned

vars == <<pc, platform_system, ref_file, reference_img, last_audio_time,
          match_found, i, results, now, current_time, fired, audioLog, sigint,
          lastDelta, scn, scnFired, img1, img2, similarity, scored>>

loopVars == <<pc, platform_system, ref_file, reference_img, last_audio_time,
              match_found, i, results, now, current_time, fired, audioLog,
              sigint, lastDelta, scn, scnFired>>

scoreVars == <<img1, img2, similarity, scored>>

\* ------------------------------------------------------------- environment
Black == <<0, 0, 0>>
White == <<255, 255, 255>>
Orange == <<0, 128, 255>>

\* a 2 x 4 frame whose first k pixels (row by row) are the gray level v
FrameWith(k, v) ==
    [r \in 1..2 |-> [c \in 1..4 |->
        IF (r - 1) * 4 + c <= k THEN <<v, v, v>> ELSE Black]]

\* What a capture backend can hand back for a region: the screen's pixels,
\* here against a black reference: 99 %, 98.5 % and 98 % alike, and a frame
\* of another shape that is 50 % alike.
Screens ==
    { FrameWith(2, 51), FrameWith(3, 51), FrameWith(4, 51),
      << <<White, Black>> >> }

\* one capture attempt's outcome in the backend
Shots ==
    [kind : {"frame"}, img : Screens]
    \cup { [kind |-> "backend_error", img |-> <<>>],
           [kind |-> "undecodable", img |-> <<>>] }

BlackRef == FrameWith(0, 0)

\* the file at REFERENCE_IMAGE: absent, not an image, gray-scale, BGR, BGRA
RefMissing == [exists |-> FALSE, decodes |-> FALSE, img |-> <<>>]
RefBGRA ==
    [exists |-> TRUE, decodes |-> TRUE,
     img |-> [r \in 1..2 |-> [c \in 1..4 |-> <<0, 0, 0, 255>>]]]
RefFiles ==
    { RefMissing,
      [exists |-> TRUE, decodes |-> FALSE, img |-> <<>>],
      [exists |-> TRUE, decodes |-> TRUE, img |-> << <<<<0>>, <<0>>>> >>],
      [exists |-> TRUE, decodes |-> TRUE, img |-> BlackRef],
      RefBGRA }

Systems == {"Windows", "Linux", "Darwin"}

\* --------------------------------------------------------------- functions
IS_WINDOWS(system) == system = "Windows"
IS_LINUX(system) == system = "Linux"

Raise(e) == [raised |-> TRUE, error |-> e, img |-> <<>>]
Return(img) == [raised |-> FALSE, error |-> "", img |-> img]

load_reference_image(file) ==
    IF ~file.exists THEN Raise("FileNotFoundError")
    ELSE IF ~file.decodes THEN Raise("AttributeError")
    ELSE IF Channels(file.img) < 3 THEN Raise("IndexError")
    ELSE IF Channels(file.img) = 4 THEN Return(BGRA2BGR(file.img))
    ELSE Return(file.img)

capture_region_windows(region, shot) ==
    IF shot.kind = "frame" THEN Return(shot.img) ELSE Raise("ScreenShotError")

capture_region_linux(region, shot) ==
    IF shot.kind = "backend_error" THEN Raise("RuntimeError")
    ELSE IF shot.kind = "undecodable" THEN Return(<<>>)
    ELSE Return(shot.img)

capture_region(system, region, shot) ==
    IF IS_WINDOWS(system) THEN capture_region_windows(region, shot)
    ELSE IF IS_LINUX(system) THEN capture_region_linux(region, shot)
    ELSE Raise("NotImplementedError")

play_audio(audio_exists, mixer_ok) ==
    IF ~audio_exists THEN "missing"
    ELSE IF mixer_ok THEN "played"
    ELSE "error"

\* line 144
Matches(sim) == FracGE(sim, SIMILARITY_THRESHOLD)

CooldownElapsedStrict(ct, last) == ct - last > COOLDOWN_PERIOD
CooldownIgnored(ct, last) == TRUE
CooldownElapsedAbs(ct, last) ==
    (IF ct >= last THEN ct - last ELSE last - ct) >= COOLDOWN_PERIOD
CooldownElapsedInterval(ct, last) == ct - last >= CHECK_INTERVAL

\* line 154
CooldownElapsed(ct, last) == ct - last >= COOLDOWN_PERIOD

Pending == [status |-> "pending", sim |-> <<0, 1>>]
Failed == [status |-> "error", sim |-> <<0, 1>>]
Scored(sim) == [status |-> "ok", sim |-> sim]

Regions == 1..Len(REGIONS)

RunningPCs == {"loop", "region", "check", "play", "stamp", "sleep"}

\* the example of the specification: the score of five consecutive cycles
Scenario == << <<99, 100>>, <<50, 100>>, <<985, 1000>>, <<99, 100>>, <<99, 100>> >>

\* this cycle's score is s: some region scored s and none scored higher
CycleScoreIs(res, s) ==
    /\ \E r \in Regions : res[r].status = "ok" /\ FracEq(res[r].sim, s)
    /\ \A r \in Regions : res[r].status = "ok" => FracGE(s, res[r].sim)

\* -------------------------------------------------------------------- Init
\* time.time() counts seconds since 1970, so at startup it is far above
\* COOLDOWN_PERIOD; the model starts the clock at the smallest such values,
\* where the first reading minus the initial last_audio_time of 0 is exactly
\* or just above the cooldown.
Init ==
    /\ pc = "start"
    /\ platform_system \in Systems
    /\ ref_file \in RefFiles
    /\ reference_img = <<>>
    /\ last_audio_time = 0
    /\ match_found = FALSE
    /\ i = 1
    /\ results = [r \in Regions |-> Pending]
    /\ now \in COOLDOWN_PERIOD .. COOLDOWN_PERIOD + MaxStartSkew
    /\ current_time = 0
    /\ fired = FALSE
    /\ audioLog = <<>>
    /\ sigint = FALSE
    /\ lastDelta = 0
    /\ scn = 0
    /\ scnFired = {}
    /\ img1 = <<>>
    /\ img2 = <<>>
    /\ similarity = <<0, 1>>
    /\ scored = FALSE

\* ----------------------------------------------------------------- actions
\* The failure is reported and main carries on into the loop.
LoadReferenceNoReturn ==
    /\ pc = "start"
    /\ pc' = "loop"
    /\ reference_img' = BlackRef
    /\ last_audio_time' = 0
    /\ UNCHANGED <<platform_system, ref_file, match_found, i, results, now,
                   current_time, fired, audioLog, sigint, lastDelta, scn,
                   scnFired, scoreVars>>

\* lines 114-126
LoadReference ==
    /\ pc = "start"
    /\ LET loaded == load_reference_image(ref_file)
       IN  IF loaded.raised
           THEN /\ pc' = "stopped_load"
                /\ UNCHANGED <<reference_img, last_audio_time>>
           ELSE /\ pc' = "loop"
                /\ reference_img' = loaded.img
                /\ last_audio_time' = 0
    /\ UNCHANGED <<platform_system, ref_file, match_found, i, results, now,
                   current_time, fired, audioLog, sigint, lastDelta, scn,
                   scnFired, scoreVars>>

\* lines 129-132: a cycle begins
LoopTop ==
    /\ pc = "loop"
    /\ match_found' = FALSE
    /\ i' = 1
    /\ pc' = "region"
    /\ UNCHANGED <<platform_system, ref_file, reference_img, last_audio_time,
                   results, now, current_time, fired, audioLog, sigint,
                   lastDelta, scn, scnFired, scoreVars>>

\* where the for loop goes after region idx
AfterRegion(idx) == IF idx + 1 > Len(REGIONS) THEN "check" ELSE "region"

\* lines 134-146: region i is captured and scored
RegionScored ==
    /\ pc = "region"
    /\ \E shot \in Shots :
         LET screen == capture_region(platform_system, REGIONS[i], shot)
             sim == compare_images(screen.img, reference_img)
         IN  /\ ~screen.raised
             /\ screen.img # <<>>
             /\ results' = [results EXCEPT ![i] = Scored(sim)]
             /\ match_found' = (match_found \/ Matches(sim))
    /\ i' = i + 1
    /\ pc' = AfterRegion(i)
    /\ UNCHANGED <<platform_system, ref_file, reference_img, last_audio_time,
                   now, current_time, fired, audioLog, sigint, lastDelta, scn,
                   scnFired, scoreVars>>

\* The error ends the for loop: the remaining regions are skipped.
RegionErrorAbort ==
    /\ pc = "region"
    /\ \E shot \in Shots :
         LET screen == capture_region(platform_system, REGIONS[i], shot)
         IN  screen.raised \/ screen.img = <<>>
    /\ results' = [results EXCEPT ![i] = Failed]
    /\ i' = Len(REGIONS) + 1
    /\ pc' = "check"
    /\ UNCHANGED <<platform_system, ref_file, reference_img, last_audio_time,
                   match_found, now, current_time, fired, audioLog, sigint,
                   lastDelta, scn, scnFired, scoreVars>>

\* The error is not caught in the for loop and leaves main.
RegionErrorFatal ==
    /\ pc = "region"
    /\ \E shot \in Shots :
         LET screen == capture_region(platform_system, REGIONS[i], shot)
         IN  screen.raised \/ screen.img = <<>>
    /\ results' = [results EXCEPT ![i] = Failed]
    /\ pc' = "uncaught"
    /\ UNCHANGED <<platform_system, ref_file, reference_img, last_audio_time,
                   match_found, i, now, current_time, fired, audioLog, sigint,
                   lastDelta, scn, scnFired, scoreVars>>

\* lines 134-138, 147-148: the capture raises, or hands back no image so
\* that writing the debug copy raises; the handler reports it and the for
\* loop goes on
RegionError ==
    /\ pc = "region"
    /\ \E shot \in Shots :
         LET screen == capture_region(platform_system, REGIONS[i], shot)
         IN  screen.raised \/ screen.img = <<>>
    /\ results' = [results EXCEPT ![i] = Failed]
    /\ i' = i + 1
    /\ pc' = AfterRegion(i)
    /\ UNCHANGED <<platform_system, ref_file, reference_img, last_audio_time,
                   match_found, now, current_time, fired, audioLog, sigint,
                   lastDelta, scn, scnFired, scoreVars>>

\* lines 152-160: the clock is read only when a region matched
Check ==
    /\ pc = "check"
    /\ IF match_found
       THEN /\ current_time' = now
            /\ pc' = IF CooldownElapsed(now, last_audio_time)
                     THEN "play" ELSE "sleep"
       ELSE /\ pc' = "sleep"
            /\ UNCHANGED current_time
    /\ UNCHANGED <<platform_system, ref_file, reference_img, last_audio_time,
                   match_found, i, results, now, fired, audioLog, sigint,
                   lastDelta, scn, scnFired, scoreVars>>

\* lines 155-156 and 94-105
PlayAudio ==
    /\ pc = "play"
    /\ \E audio_exists \in BOOLEAN, mixer_ok \in BOOLEAN :
         audioLog' = Append(audioLog,
             [t |-> current_time, outcome |-> play_audio(audio_exists, mixer_ok)])
    /\ fired' = TRUE
    /\ pc' = "stamp"
    /\ UNCHANGED <<platform_system, ref_file, reference_img, last_audio_time,
                   match_found, i, results, now, current_time, sigint,
                   lastDelta, scn, scnFired, scoreVars>>

\* The time is recorded only when the clip did play.
StampOnSuccessOnly ==
    /\ pc = "stamp"
    /\ last_audio_time' = IF audioLog[Len(audioLog)].outcome = "played"
                          THEN current_time ELSE last_audio_time
    /\ pc' = "sleep"
    /\ UNCHANGED <<platform_system, ref_file, reference_img, match_found, i,
                   results, now, current_time, fired, audioLog, sigint,
                   lastDelta, scn, scnFired, scoreVars>>

\* line 157
Stamp ==
    /\ pc = "stamp"
    /\ last_audio_time' = current_time
    /\ pc' = "sleep"
    /\ UNCHANGED <<platform_system, ref_file, reference_img, match_found, i,
                   results, now, current_time, fired, audioLog, sigint,
                   lastDelta, scn, scnFired, scoreVars>>

\* line 162: the cycle ends; the next begins CHECK_INTERVAL seconds later,
\* or more by what the cycle's own work took.  What the cycle left behind
\* and no later cycle reads (results, fired, current_time) is cleared.
Sleep ==
    /\ pc = "sleep"
    /\ LET k == scn + 1
           follows == /\ scn >= 0
                      /\ k <= Len(Scenario)
                      /\ CycleScoreIs(results, Scenario[k])
                      /\ (k = 1 \/ lastDelta = CHECK_INTERVAL)
       IN  /\ IF scn = Len(Scenario) THEN UNCHANGED <<scn, scnFired>>
              ELSE IF follows
              THEN /\ scn' = k
                   /\ scnFired' = IF fired THEN scnFired \cup {k} ELSE scnFired
              ELSE /\ scn' = -1
                   /\ scnFired' = {}
           /\ \E jitter \in 0..MaxJitter :
                /\ now + CHECK_INTERVAL + jitter <= MaxTime
                /\ now' = now + CHECK_INTERVAL + jitter
                /\ lastDelta' = IF scn' \in 1..(Len(Scenario) - 1)
                                THEN CHECK_INTERVAL + jitter ELSE 0
    /\ results' = [r \in Regions |-> Pending]
    /\ fired' = FALSE
    /\ current_time' = 0
    /\ pc' = "loop"
    /\ UNCHANGED <<platform_system, ref_file, reference_img, last_audio_time,
                   match_found, i, audioLog, sigint, scoreVars>>

\* lines 164-165: the interrupt signal arrives while the loop runs; main
\* reports it and returns, and the cycle's locals go with it
Interrupt ==
    /\ pc \in RunningPCs
    /\ sigint' = TRUE
    /\ pc' = "stopped_interrupt"
    /\ match_found' = FALSE
    /\ i' = 1
    /\ results' = [r \in Regions |-> Pending]
    /\ fired' = FALSE
    /\ current_time' = 0
    /\ UNCHANGED <<platform_system, ref_file, reference_img, last_audio_time,
                   now, audioLog, lastDelta, scn, scnFired, scoreVars>>

\* lines 114-124: the interrupt signal arrives during startup, where no
\* handler catches it
InterruptAtStartup ==
    /\ pc = "start"
    /\ sigint' = TRUE
    /\ pc' = "uncaught"
    /\ UNCHANGED <<platform_system, ref_file, reference_img, last_audio_time,
                   match_found, i, results, now, current_time, fired,
                   audioLog, lastDelta, scn, scnFired, scoreVars>>

Next ==
    \/ LoadReference
    \/ LoopTop
    \/ RegionScored
    \/ RegionError
    \/ Check
    \/ PlayAudio
    \/ Stamp
    \/ Sleep
    \/ Interrupt
    \/ InterruptAtStartup

Spec == Init /\ [][Next]_vars

\* The wall clock is set, forward or back, to any value, between two cycles.
ClockSet ==
    /\ pc = "loop"
    /\ \E t \in 0..MaxTime : t # now /\ now' = t
    /\ scn' = -1
    /\ scnFired' = {}
    /\ UNCHANGED <<pc, platform_system, ref_file, reference_img,
                   last_audio_time, match_found, i, results, current_time,
                   fired, audioLog, sigint, lastDelta, scoreVars>>

NextAnyClock ==
    \/ Next
    \/ ClockSet

\* as Init, on one supported and one unsupported system, with the
\* reference file absent or a BGRA image
InitAnyClock ==
    /\ Init
    /\ platform_system \in {"Linux", "Darwin"}
    /\ ref_file \in {RefMissing, RefBGRA}

SpecAnyClock == InitAnyClock /\ [][NextAnyClock]_vars

\* ------------------------------------------------- the scorer on its own
\* every grid of at most MaxPixels pixels over a palette
Grids(palette) ==
    UNION { [1..r -> [1..c -> palette]] :
            <<r, c>> \in { rc \in (1..MaxPixels) \X (1..MaxPixels) :
                           rc[1] * rc[2] <= MaxPixels } }

Candidates == Grids({Black, White, Orange})
References == Grids({Black, White})

InitScore ==
    /\ pc = "scorer"
    /\ platform_system = "Linux"
    /\ ref_file = [exists |-> TRUE, decodes |-> TRUE, img |-> BlackRef]
    /\ reference_img = <<>>
    /\ last_audio_time = 0
    /\ match_found = FALSE
    /\ i = 1
    /\ results = [r \in Regions |-> Pending]
    /\ now = COOLDOWN_PERIOD
    /\ current_time = 0
    /\ fired = FALSE
    /\ audioLog = <<>>
    /\ sigint = FALSE
    /\ lastDelta = 0
    /\ scn = 0
    /\ scnFired = {}
    /\ img1 \in Candidates
    /\ img2 \in References
    /\ similarity = <<0, 1>>
    /\ scored = FALSE

\* lines 79-92
Compare ==
    /\ pc = "scorer"
    /\ ~scored
    /\ similarity' = compare_images(img1, img2)
    /\ scored' = TRUE
    /\ UNCHANGED <<img1, img2, loopVars>>

NextScore == Compare

SpecScore == InitScore /\ [][NextScore]_vars

\* ------------------------------------------------------------------ claims
\* some region of the cycle scored at or above the threshold
Qualifies(res) ==
    \E r \in Regions :
        res[r].status = "ok" /\ FracGE(res[r].sim, SIMILARITY_THRESHOLD)

\* the play_audio invocations of the cycles before this one
PriorAlerts ==
    IF fired THEN SubSeq(audioLog, 1, Len(audioLog) - 1) ELSE audioLog

LastOf(s) == s[Len(s)]

\* C1: at the end of a cycle in which some region scored at least
\* SIMILARITY_THRESHOLD, play_audio was invoked in that cycle exactly when no
\* alert had been raised before (the first qualifying cycle after startup) or
\* the cycle's time is at least COOLDOWN_PERIOD after the last alert
\* (equality included); otherwise it was suppressed.
C1_AlertCooldown ==
    (pc = "sleep" /\ Qualifies(results)) =>
        (fired <=> (\/ PriorAlerts = <<>>
                    \/ now - LastOf(PriorAlerts).t >= COOLDOWN_PERIOD))

\* C1 witness: an alert raised again exactly COOLDOWN_PERIOD after the last.
C1_Witness ==
    /\ pc = "sleep"
    /\ fired
    /\ Len(audioLog) = 2
    /\ audioLog[2].t - audioLog[1].t = COOLDOWN_PERIOD

\* C2 as stated: when the first five cycles score 0.99, 0.5, 0.985, 0.99,
\* 0.99, two seconds apart, the alerts are raised in cycles 1 and 4.
C2_ExampleAsStated == scn = Len(Scenario) => scnFired = {1, 4}

\* C2: when the first five cycles score 0.99, 0.5, 0.985, 0.99, 0.99, two
\* seconds apart, an alert is raised in cycle 1 only: cycles 3, 4 and 5
\* qualify 4, 6 and 8 seconds after it and are suppressed.  Stated for
\* every prefix of the five cycles.
C2_ExampleAmended == scn \in 1..Len(Scenario) => scnFired = {1}

\* C2 witness: the five cycles of the example have run.
C2_Witness == scn = Len(Scenario) /\ scnFired = {1}

\* C3: when the for loop is over, every region has been attempted, and
\* match_found is the OR of (score >= threshold) over the regions that did
\* not fail.
C3_FailureIsolated ==
    pc = "check" =>
        /\ \A r \in Regions : results[r].status \in {"ok", "error"}
        /\ match_found = Qualifies(results)

\* C3 witness: the first region failed, the second was still scored and
\* matched.
C3_Witness ==
    /\ pc = "check"
    /\ results[1].status = "error"
    /\ results[2].status = "ok"
    /\ match_found

\* C4: with the reference file missing, main never enters the poll loop: no
\* region is captured or scored, no alert is played.
C4_MissingReferenceStops ==
    ~ref_file.exists =>
        /\ pc \in {"start", "stopped_load", "uncaught"}
        /\ \A r \in Regions : results[r].status = "pending"
        /\ audioLog = <<>>
        /\ reference_img = <<>>

\* C4 witness: main has returned from the failed load.
C4_Witness == pc = "stopped_load" /\ ~ref_file.exists

\* C5 as stated: on a system that is neither Windows nor Linux, once a
\* capture attempt has raised, the poll loop is no longer running.
C5_UnsupportedIsFatal ==
    ( /\ ~IS_WINDOWS(platform_system)
      /\ ~IS_LINUX(platform_system)
      /\ \E r \in Regions : results[r].status = "error" )
    => pc \notin RunningPCs

\* some step of the loop other than the interrupt can be taken
CanProgress ==
    \/ ENABLED (LoopTop \/ Check \/ PlayAudio \/ Stamp \/ Sleep)
    \/ ENABLED RegionError
    \/ ENABLED RegionScored

\* C6: once the loop runs, every step keeps it running or is the delivery
\* of an interrupt signal; main is stopped after the load only with a signal
\* delivered; a sleep is followed by the next cycle; and, within the modelled
\* time, a running loop always has a next step that is not the interrupt.
C6_OnlyInterruptStops ==
    /\ [](pc \in {"stopped_interrupt", "uncaught"} => sigint)
    /\ [](pc \in RunningPCs /\ now + CHECK_INTERVAL <= MaxTime => CanProgress)
    /\ [][(pc \in RunningPCs) =>
            (pc' \in RunningPCs
             \/ (pc' = "stopped_interrupt" /\ ~sigint /\ sigint'))]_vars
    /\ [][pc = "sleep" /\ pc' \in RunningPCs => pc' = "loop"]_vars

\* C6 witness: a cycle in which a capture failed and the playback failed,
\* and the loop still runs.
C6_Witness ==
    /\ pc = "sleep"
    /\ ~sigint
    /\ results[1].status = "error"
    /\ fired
    /\ LastOf(audioLog).outcome = "error"

\* C7: after a play_audio invocation that failed, the loop keeps running
\* unless interrupted, and the next invocation comes at least COOLDOWN_PERIOD
\* later.
C7_PlaybackFailure ==
    /\ \A k \in 1..(Len(audioLog) - 1) :
          audioLog[k].outcome # "played" =>
              audioLog[k + 1].t - audioLog[k].t >= COOLDOWN_PERIOD
    /\ (audioLog # <<>> /\ LastOf(audioLog).outcome # "played" /\ ~sigint)
          => pc \in RunningPCs

\* C7 witness: a failed playback (file missing), then, later, another alert.
C7_Witness == Len(audioLog) = 2 /\ audioLog[1].outcome = "missing"

\* C8: the score compare_images returns is at least 0 and at most 1.
C8_ScoreInUnitInterval ==
    scored =>
        /\ similarity[2] > 0
        /\ similarity[1] >= 0
        /\ similarity[1] <= similarity[2]

\* C8 witness: a candidate and a reference of different shapes whose every
\* pixel differs by 255: the score is exactly 0.
C8_Witness ==
    /\ scored
    /\ similarity[1] = 0
    /\ Shape(img1) # Shape(img2)

\* C9: last_audio_time never decreases, whatever the clock returns.
C9_LastAudioTimeMonotonic == [][last_audio_time' >= last_audio_time]_vars

\* C9 witness: a matching cycle in which the clock reads less than the time
\* of the last alert.
C9_Witness ==
    /\ pc = "check"
    /\ match_found
    /\ audioLog # <<>>
    /\ now < last_audio_time

\* C10: play_audio is invoked only in a cycle that matched with the cooldown
\* elapsed; last_audio_time changes only in such a cycle, after the
\* invocation, and becomes the cycle's time.
C10_FrameEffect ==
    /\ [][audioLog' # audioLog =>
            (match_found /\ now - last_audio_time >= COOLDOWN_PERIOD)]_vars
    /\ [][last_audio_time' # last_audio_time =>
            (/\ match_found
             /\ fired
             /\ now - last_audio_time >= COOLDOWN_PERIOD
             /\ last_audio_time' = now
             /\ last_audio_time' = current_time)]_vars

\* C10 witness: a cycle that matched during the cooldown and played nothing.
C10_Witness ==
    /\ pc = "sleep"
    /\ match_found
    /\ ~fired
    /\ audioLog # <<>>
    /\ last_audio_time = LastOf(audioLog).t

====
